---- MODULE Spec2Model ----
(***************************************************************************)
(* Model of the GameEngine physics kernel: BallBasicModel (ball_model.py)  *)
(* and RobotBasicModel (robot_model.py).                                   *)
(*                                                                         *)
(* Numbers.  The program computes with floats.  Here a length, a speed, a  *)
(* time, a coefficient is a fixed-point integer counting thousandths       *)
(* (Scale units make 1.0), and every product or quotient is truncated      *)
(* toward zero at that resolution.  An angle is an integer counting        *)
(* eighths of a turn (PI units make np.pi), so that every angle the code   *)
(* names (0, pi/4, pi/2, 3pi/4, pi) and the wrap by 2*pi are exact.        *)
(* A Python exception is the value of the err variable of the call.        *)
(***************************************************************************)
EXTENDS Integers, Sequences, FiniteSets, TLC

\* ------------------------------------------------------------------------
\* Fixed-point arithmetic standing for the float operators of the source
\* ------------------------------------------------------------------------

\* one unit of the program (1.0) in model units
Scale == 10 ^ 3

Abs(a) == IF a < 0 THEN -a ELSE a

Sign(a) == IF a > 0 THEN 1 ELSE IF a < 0 THEN -1 ELSE 0

\* a / b for b # 0, truncated toward zero (the callers test b = 0 first,
\* where Python raises ZeroDivisionError)
Quot(a, b) == Sign(a) * Sign(b) * (Abs(a) \div Abs(b))

\* a * b of two fixed-point numbers (split so the product stays in range)
Mul(a, b) ==
  Sign(a) * Sign(b) *
    ((Abs(a) \div Scale) * Abs(b) + (((Abs(a) % Scale) * Abs(b)) \div Scale))

\* a / b of two fixed-point numbers, b # 0 (split so a * Scale stays in range)
Div(a, b) ==
  Sign(a) * Sign(b) *
    ((Abs(a) \div Abs(b)) * Scale + (((Abs(a) % Abs(b)) * Scale) \div Abs(b)))

RECURSIVE SqrtIter(_, _)
SqrtIter(n, g) ==
  LET h == (g + (n \div g)) \div 2
  IN  IF h >= g THEN g ELSE SqrtIter(n, h)

\* n ** 0.5 of a raw product n of two fixed-point numbers (n >= 0)
Sqrt(n) == IF n = 0 THEN 0 ELSE SqrtIter(n, n)

\* (a**2 + b**2) ** 0.5
Hypot(a, b) == Sqrt(a * a + b * b)

\* the outcomes of a call
NoError == "none"
ZeroDivisionError == "ZeroDivisionError"
ValueError == "ValueError"
IndexError == "IndexError"

\* ------------------------------------------------------------------------
\* Bounds of the model
\* ------------------------------------------------------------------------

\* number of ball operations explored after construction
MaxBallOps == 3

\* steepest trajectory slope |vy/vx| for which elasticCollision is explored
MaxSlope == 4

\* ------------------------------------------------------------------------
\* Ball: constants of the source
\* ------------------------------------------------------------------------

\* acceleration_threshold = 0.01
acceleration_threshold == 10

\* move_vel_threshold = 0.001
move_vel_threshold == 1

VARIABLES
  \* BallBasicModel fields
  dt, friction, mass, vel_bounce_coefficient, max_vel,
  x_pos, y_pos, x_vel, y_vel,
  \* the last ball call: its name, arguments and the ball before it
  b_call,
  \* exception raised by the last ball call
  b_err,
  \* number of ball calls so far
  b_ops,
  \* RobotBasicModel fields; constructed is FALSE until __init__ has returned
  constructed, cord_system_rot, x_pos_EFCS, y_pos_EFCS, pointing_angle, vel,
  \* the last robot call: its name, arguments and the robot before it
  r_call,
  \* exception raised by the last robot call
  r_err,
  \* value returned by the last robot call
  r_ret,
  \* number of robot calls so far
  r_ops

ballVars == <<dt, friction, mass, vel_bounce_coefficient, max_vel,
              x_pos, y_pos, x_vel, y_vel, b_call, b_err, b_ops>>

robotVars == <<constructed, cord_system_rot, x_pos_EFCS, y_pos_EFCS,
               pointing_angle, vel, r_call, r_err, r_ret, r_ops>>

vars == <<dt, friction, mass, vel_bounce_coefficient, max_vel,
          x_pos, y_pos, x_vel, y_vel, b_call, b_err, b_ops,
          constructed, cord_system_rot, x_pos_EFCS, y_pos_EFCS,
          pointing_angle, vel, r_call, r_err, r_ret, r_ops>>

\* ------------------------------------------------------------------------
\* Ball: inputs
\* ------------------------------------------------------------------------

\* the other bodies handed to the ball (the tests' DummpPlayer): position,
\* velocity and radius in world coordinates
Body(x, y, vx, vy, r) == [x |-> x, y |-> y, vx |-> vx, vy |-> vy, radius |-> r]

Bodies ==
  { Body(0, 0, 0, 0, 500),
    Body(-1000, 0, 1000, -2000, 500),
    Body(50, 1000, -1000, 0, 500),
    Body(600, 800, 2000, 1000, 500),
    Body(1000, 50, 0, 2000, 500) }

NoBody == Body(0, 0, 0, 0, 0)

KickVels == {2000, 5000}

WallOrientations == {"vertical", "horizontal", "corner", "none"}

\* friction values given to the constructor (0.01 is the default)
Frictions == {10, 900, 2500}

\* vel_bounce_coef values given to the constructor (0.8 is the default)
BounceCoefficients == {800, 300}

\* initial positions given to the constructor
InitPositions == {<<0, 0>>, <<300, -400>>}

BallCall(op, body, kick_vel, orientation) ==
  [op |-> op, body |-> body, kick_vel |-> kick_vel, orientation |-> orientation,
   x0 |-> x_pos, y0 |-> y_pos, vx0 |-> x_vel, vy0 |-> y_vel]

\* ------------------------------------------------------------------------
\* Ball: BallBasicModel.__init__
\* ------------------------------------------------------------------------
BallNew ==
  /\ dt = 100
  /\ friction \in Frictions
  /\ mass = 100
  /\ vel_bounce_coefficient \in BounceCoefficients
  /\ max_vel = 3000
  /\ \E p \in InitPositions :
       /\ x_pos = p[1]
       /\ y_pos = p[2]
       /\ b_call = [op |-> "init", body |-> NoBody, kick_vel |-> 0,
                    orientation |-> "none",
                    x0 |-> p[1], y0 |-> p[2], vx0 |-> 0, vy0 |-> 0]
  /\ x_vel = 0
  /\ y_vel = 0
  /\ b_err = NoError
  /\ b_ops = 0

\* ------------------------------------------------------------------------
\* Ball: step
\* ------------------------------------------------------------------------

\* mutant: the friction accelerates
AccReversed(velv, f, m) == Quot(velv * f, m)

\* acc = -vel * self._friction / self._mass
Acc(velv, f, m) == Quot((-velv) * f, m)

\* mutant: no threshold, the acceleration is always decomposed
AccAppliesAlways(acc) == TRUE

\* abs(acc) > acceleration_threshold
AccApplies(acc) == Abs(acc) > acceleration_threshold

\* acc_x = acc * self._x_vel / vel
AccComponent(acc, v, velv) == Quot(acc * v, velv)

\* the ball after step(): [x, y, vx, vy, err]
BallStep(x, y, vx, vy, d, f, m) ==
  LET velv == Hypot(vx, vy)
      same == [x |-> x, y |-> y, vx |-> vx, vy |-> vy]
  IN  IF m = 0 THEN same @@ [err |-> ZeroDivisionError]
      ELSE
        LET acc == Acc(velv, f, m)
        IN  IF AccApplies(acc) /\ velv = 0 THEN same @@ [err |-> ZeroDivisionError]
            ELSE
              LET acc_x == IF AccApplies(acc) THEN AccComponent(acc, vx, velv) ELSE 0
                  acc_y == IF AccApplies(acc) THEN AccComponent(acc, vy, velv) ELSE 0
                  dt_sq == Mul(d, d)
              IN  [x   |-> x + Mul(vx, d) + Quot(Mul(acc_x, dt_sq), 2),
                   y   |-> y + Mul(vy, d) + Quot(Mul(acc_y, dt_sq), 2),
                   vx  |-> vx + Mul(acc_x, d),
                   vy  |-> vy + Mul(acc_y, d),
                   err |-> NoError]

Step ==
  /\ b_ops < MaxBallOps
  /\ LET r == BallStep(x_pos, y_pos, x_vel, y_vel, dt, friction, mass)
     IN  /\ x_pos' = r.x
         /\ y_pos' = r.y
         /\ x_vel' = r.vx
         /\ y_vel' = r.vy
         /\ b_err' = r.err
  /\ b_call' = BallCall("step", NoBody, 0, "none")
  /\ b_ops' = b_ops + 1
  /\ UNCHANGED <<dt, friction, mass, vel_bounce_coefficient, max_vel>>
  /\ UNCHANGED robotVars

\* ------------------------------------------------------------------------
\* Ball: _wall_collision
\* ------------------------------------------------------------------------

\* self._x_vel *= -1 * self._vel_bounce_coefficient
Bounce(v, coef) == Mul(v, (-1) * coef)

\* the velocity after _wall_collision(None, wall_orientation)
WallVelX(vx, coef, orientation) ==
  IF orientation = "vertical" \/ orientation = "corner" THEN Bounce(vx, coef) ELSE vx

\* mutant: the vertical wall reverses vy
WallVelYSwapped(vy, coef, orientation) ==
  IF orientation = "vertical" \/ orientation = "corner" THEN Bounce(vy, coef) ELSE vy

WallVelY(vy, coef, orientation) ==
  IF orientation = "horizontal" \/ orientation = "corner" THEN Bounce(vy, coef) ELSE vy

WallCollision(orientation) ==
  /\ b_ops < MaxBallOps
  /\ x_vel' = WallVelX(x_vel, vel_bounce_coefficient, orientation)
  /\ y_vel' = WallVelY(y_vel, vel_bounce_coefficient, orientation)
  /\ b_err' = NoError
  /\ b_call' = BallCall("wall", NoBody, 0, orientation)
  /\ b_ops' = b_ops + 1
  /\ UNCHANGED <<dt, friction, mass, vel_bounce_coefficient, max_vel, x_pos, y_pos>>
  /\ UNCHANGED robotVars

\* ------------------------------------------------------------------------
\* Ball: _kick_collision
\* ------------------------------------------------------------------------

\* kick_vel = min(kick_vel, self._max_vel)
KickSpeed(kick_vel, maxv) == IF kick_vel < maxv THEN kick_vel ELSE maxv

\* self._x_vel = kick_vel * dx / diff
KickComponent(kv, d, diff) == Quot(kv * d, diff)

\* mutant: the kick adds to the velocity of the ball
KickAdds(x, y, vx, vy, maxv, body, kick_vel) ==
  LET dx == x - body.x
      dy == y - body.y
      diff == Hypot(dx, dy)
      kv == KickSpeed(kick_vel, maxv)
  IN  IF diff = 0 THEN [vx |-> vx, vy |-> vy, err |-> ZeroDivisionError]
      ELSE [vx |-> vx + KickComponent(kv, dx, diff),
            vy |-> vy + KickComponent(kv, dy, diff),
            err |-> NoError]

\* the velocity after _kick_collision(body, kick_vel): [vx, vy, err]
Kick(x, y, vx, vy, maxv, body, kick_vel) ==
  LET dx == x - body.x
      dy == y - body.y
      diff == Hypot(dx, dy)
      kv == KickSpeed(kick_vel, maxv)
  IN  IF diff = 0 THEN [vx |-> vx, vy |-> vy, err |-> ZeroDivisionError]
      ELSE [vx |-> KickComponent(kv, dx, diff),
            vy |-> KickComponent(kv, dy, diff),
            err |-> NoError]

KickCollision(body, kick_vel) ==
  /\ b_ops < MaxBallOps
  /\ LET r == Kick(x_pos, y_pos, x_vel, y_vel, max_vel, body, kick_vel)
     IN  /\ x_vel' = r.vx
         /\ y_vel' = r.vy
         /\ b_err' = r.err
  /\ b_call' = BallCall("kick", body, kick_vel, "none")
  /\ b_ops' = b_ops + 1
  /\ UNCHANGED <<dt, friction, mass, vel_bounce_coefficient, max_vel, x_pos, y_pos>>
  /\ UNCHANGED robotVars

\* ------------------------------------------------------------------------
\* Ball: _receive_collision
\* ------------------------------------------------------------------------

\* mutant: the velocity of the body is added
ReceiveVelXAdds(vx, body) == vx + body.vx

\* self._x_vel, self._y_vel = collision_object.get_velocity_components_wcs()
ReceiveVelX(vx, body) == body.vx

ReceiveVelY(vy, body) == body.vy

ReceiveCollision(body) ==
  /\ b_ops < MaxBallOps
  /\ x_vel' = ReceiveVelX(x_vel, body)
  /\ y_vel' = ReceiveVelY(y_vel, body)
  /\ b_err' = NoError
  /\ b_call' = BallCall("receive", body, 0, "none")
  /\ b_ops' = b_ops + 1
  /\ UNCHANGED <<dt, friction, mass, vel_bounce_coefficient, max_vel, x_pos, y_pos>>
  /\ UNCHANGED robotVars

\* ------------------------------------------------------------------------
\* Ball: _elastic_collision_with_round_player
\* ------------------------------------------------------------------------

\* if self._x_vel >= move_vel_threshold: the line is y = y0 + k (x - x0)
SlopeBranch(vx) == vx >= move_vel_threshold

\* the quadratic a s^2 + b s + c = 0 of the line and the circle: [a, b, c]
Quadratic(x, y, vx, vy, body) ==
  IF SlopeBranch(vx)
  THEN LET k == Div(vy, vx)
           M == Mul(k, x) - y + body.y
       IN  [a |-> Scale + Mul(k, k),
            b |-> (-2) * (body.x + Mul(M, k)),
            c |-> Mul(body.x, body.x) + Mul(M, M) - Mul(body.radius, body.radius)]
  ELSE [a |-> Scale,
        b |-> (-2) * body.y,
        c |-> Mul(body.y, body.y) + Mul(x - body.x, x - body.x)
                - Mul(body.radius, body.radius)]

\* delta = b ** 2 - 4 * a * c
Discriminant(q) == Mul(q.b, q.b) - 4 * Mul(q.a, q.c)

\* if delta < 0: return
NoIntersection(delta) == delta < 0

\* the intersection point nearer to the ball: [x, y]
CollisionPoint(x, y, vx, vy, q, delta) ==
  LET delta_root == Sqrt(delta * Scale)
      sol1 == Div((-q.b) + delta_root, 2 * q.a)
      sol2 == Div((-q.b) - delta_root, 2 * q.a)
      x1 == IF SlopeBranch(vx) THEN sol1 ELSE x
      x2 == IF SlopeBranch(vx) THEN sol2 ELSE x
      y1 == IF SlopeBranch(vx) THEN y + Quot(vy * (x1 - x), vx) ELSE sol1
      y2 == IF SlopeBranch(vx) THEN y + Quot(vy * (x2 - x), vx) ELSE sol2
      dist_1 == (x1 - x) * (x1 - x) + (y1 - y) * (y1 - y)
      dist_2 == (x2 - x) * (x2 - x) + (y2 - y) * (y2 - y)
  IN  IF dist_1 < dist_2 THEN [x |-> x1, y |-> y1] ELSE [x |-> x2, y |-> y2]

\* the velocity after the reflection on the normal (n_x, n_y): [vx, vy, err]
Reflect(vx, vy, n_x, n_y, body) ==
  LET nn == n_x * n_x + n_y * n_y
      same == [vx |-> vx, vy |-> vy, err |-> ZeroDivisionError]
  IN  IF nn = 0 THEN same
      ELSE
        LET sp == Div(vx * n_x + vy * n_y, nn)
            r_x == vx - 2 * Mul(sp, n_x)
            r_y == vy - 2 * Mul(sp, n_y)
            vel_ == Hypot(vx, vy)
            ref_vel == Hypot(r_x, r_y)
        IN  IF ref_vel = 0 THEN same
            ELSE [vx |-> body.vx + Quot(r_x * vel_, ref_vel),
                  vy |-> body.vy + Quot(r_y * vel_, ref_vel),
                  err |-> NoError]

\* mutant: the rebound keeps the bounce coefficient's part of the speed
\* (vel_ *= self._vel_bounce_coefficient)
ElasticBounced(x, y, vx, vy, body) ==
  LET q == Quadratic(x, y, vx, vy, body)
      delta == Discriminant(q)
  IN  IF NoIntersection(delta) THEN [vx |-> vx, vy |-> vy, err |-> NoError]
      ELSE LET p == CollisionPoint(x, y, vx, vy, q, delta)
               r == Reflect(vx, vy, p.x - body.x, p.y - body.y, body)
           IN  [vx |-> body.vx + Mul(r.vx - body.vx, vel_bounce_coefficient),
                vy |-> body.vy + Mul(r.vy - body.vy, vel_bounce_coefficient),
                err |-> r.err]

\* the velocity after _elastic_collision_with_round_player(body): [vx, vy, err]
Elastic(x, y, vx, vy, body) ==
  LET q == Quadratic(x, y, vx, vy, body)
      delta == Discriminant(q)
  IN  IF NoIntersection(delta) THEN [vx |-> vx, vy |-> vy, err |-> NoError]
      ELSE LET p == CollisionPoint(x, y, vx, vy, q, delta)
           IN  Reflect(vx, vy, p.x - body.x, p.y - body.y, body)

ElasticCollision(body) ==
  /\ b_ops < MaxBallOps
  /\ SlopeBranch(x_vel) => Abs(y_vel) <= MaxSlope * x_vel
  /\ LET r == Elastic(x_pos, y_pos, x_vel, y_vel, body)
     IN  /\ x_vel' = r.vx
         /\ y_vel' = r.vy
         /\ b_err' = r.err
  /\ b_call' = BallCall("elastic", body, 0, "none")
                 @@ [slope |-> SlopeBranch(x_vel)]
  /\ b_ops' = b_ops + 1
  /\ UNCHANGED <<dt, friction, mass, vel_bounce_coefficient, max_vel, x_pos, y_pos>>
  /\ UNCHANGED robotVars

NextBall ==
  \/ Step
  \/ \E o \in WallOrientations : WallCollision(o)
  \/ \E body \in Bodies : ElasticCollision(body)
  \/ \E body \in Bodies, kv \in KickVels : KickCollision(body, kv)
  \/ \E body \in Bodies : ReceiveCollision(body)

\* ------------------------------------------------------------------------
\* Robot: constants of the source and units
\* ------------------------------------------------------------------------

\* np.pi, in eighths of a turn
PI == 4

\* the defaults of RobotModel.__init__: dt = 0.1, wheel_radius = 0.02,
\* axis_len = 0.05
robot_dt == 100

wheel_radius == 20

axis_len == 50

\* A wheel speed is an integer counting half the speed difference that turns
\* the robot by one angle unit in one tick:
\* (np.pi / 4) / (wheel_radius * dt / axis_len) / 2 = 9.817 rad/s.
\* The wheel speeds given to the robot are even, so that their mean and the
\* turn of one tick are whole numbers.
WheelUnit == 9817

\* number of robot operations explored after construction
MaxRobotOps == 2

\* ------------------------------------------------------------------------
\* Robot: inputs
\* ------------------------------------------------------------------------

\* cord_system_rot values given to the constructor: 0, pi, -pi, pi/2, 2 pi
Rotations == {0, PI, -PI, 2, 2 * PI}

\* (init_x_pos, init_y_pos) given to the constructor, world coordinates
RobotInitPositions == {<<0, 0>>, <<2400, 1600>>, <<-2500, 1500>>}

\* (l_motor_speed, r_motor_speed) given to step
WheelPairs ==
  {<<0, 0>>, <<4, 4>>, <<-4, -4>>, <<2, 0>>, <<0, 2>>, <<2, -2>>, <<-4, 4>>,
   <<6, -6>>, <<14, -12>>}

\* (l_motor_speed, r_motor_speed) given to collision_step
CollisionWheelPairs == {<<4, 4>>, <<-4, -4>>, <<2, 0>>, <<-2, 0>>, <<2, -2>>}

\* CollisionTypes, as collision_step tells them apart
CollisionTypes == {"NO", "WALL_VERTICAL", "WALL_HORIZONTAL", "WALL_CORNER", "PLAYER"}

\* the other bodies of a collision list: their world positions
Other(x, y) == [x |-> x, y |-> y]

OtherA == Other(2900, 1600)

OtherB == Other(0, -500)

\* (wall_collision, players_collision, collision_list) given to collision_step
Collision(wall, players, list) == [wall |-> wall, players |-> players, list |-> list]

CollisionInputs ==
  { Collision("NO", "NO", <<>>),
    Collision("NO", "NO", <<OtherA>>),
    Collision("WALL_VERTICAL", "NO", <<>>),
    Collision("WALL_HORIZONTAL", "NO", <<>>),
    Collision("WALL_CORNER", "NO", <<>>),
    Collision("NO", "PLAYER", <<OtherA>>),
    Collision("NO", "PLAYER", <<OtherA, OtherB>>),
    Collision("WALL_VERTICAL", "PLAYER", <<OtherB, OtherA>>),
    Collision("NO", "PLAYER", <<>>) }

NoCollision == Collision("NO", "NO", <<>>)

RobotCall(op, l, r, col, rot, ix, iy) ==
  [op |-> op, l |-> l, r |-> r, col |-> col, rot |-> rot, ix |-> ix, iy |-> iy,
   x0 |-> x_pos_EFCS, y0 |-> y_pos_EFCS, q0 |-> pointing_angle, v0 |-> vel]

\* ------------------------------------------------------------------------
\* Robot: coordinate frame converter
\* ------------------------------------------------------------------------

\* mutant: any other rotation is taken as no rotation
convert_field_CS_lenient(rot, pos_x, pos_y) ==
  IF rot = PI THEN [x |-> -pos_x, y |-> -pos_y, err |-> NoError]
  ELSE [x |-> pos_x, y |-> pos_y, err |-> NoError]

\* _convert_field_CS_to_EFCS: [x, y, err]
convert_field_CS_to_EFCS(rot, pos_x, pos_y) ==
  IF rot = 0 THEN [x |-> pos_x, y |-> pos_y, err |-> NoError]
  ELSE IF rot = PI THEN [x |-> -pos_x, y |-> -pos_y, err |-> NoError]
  ELSE [x |-> 0, y |-> 0, err |-> ValueError]

\* _convert_EFCS_to_field_CS: [x, y, err]
convert_EFCS_to_field_CS(rot, pos_x, pos_y) ==
  IF rot = 0 THEN [x |-> pos_x, y |-> pos_y, err |-> NoError]
  ELSE IF rot = PI THEN [x |-> -pos_x, y |-> -pos_y, err |-> NoError]
  ELSE [x |-> 0, y |-> 0, err |-> ValueError]

\* np.cos and np.sin of an angle in eighths of a turn
Cos(a) ==
  LET k == a % (2 * PI)
  IN  IF k = 0 THEN Scale
      ELSE IF k = 1 \/ k = 7 THEN 707
      ELSE IF k = 2 \/ k = 6 THEN 0
      ELSE IF k = 3 \/ k = 5 THEN -707
      ELSE -Scale

Sin(a) == Cos(a - 2)

\* np.arctan2(dy, dx), to the nearest eighth of a turn (414/1000 is
\* tan(pi/8)); arctan2(0, 0) = 0 and arctan2(0, dx) = pi for dx < 0
Arctan2(dy, dx) ==
  LET ax == Abs(dx)
      ay == Abs(dy)
      a == IF ay * Scale <= 414 * ax THEN 0
           ELSE IF ax * Scale <= 414 * ay THEN 2
           ELSE 1
  IN  IF dx = 0 /\ dy = 0 THEN 0
      ELSE IF dx >= 0 /\ dy >= 0 THEN a
      ELSE IF dx < 0 /\ dy >= 0 THEN PI - a
      ELSE IF dx < 0 THEN a - PI
      ELSE -a

\* mutant: the coordinate is left as it is
RoundNot(v) == v

\* np.round of a coordinate: the nearest whole number, a half to the even one
Round(v) ==
  LET q == v \div Scale
      rest == v % Scale
  IN  IF 2 * rest < Scale THEN q * Scale
      ELSE IF 2 * rest > Scale THEN (q + 1) * Scale
      ELSE IF q % 2 = 0 THEN q * Scale
      ELSE (q + 1) * Scale

\* ------------------------------------------------------------------------
\* Robot: RobotModel.__init__
\* ------------------------------------------------------------------------
RobotNotConstructed ==
  /\ constructed = FALSE
  /\ cord_system_rot = 0
  /\ x_pos_EFCS = 0
  /\ y_pos_EFCS = 0
  /\ pointing_angle = 0
  /\ vel = 0
  /\ r_call = [op |-> "none", l |-> 0, r |-> 0, col |-> NoCollision, rot |-> 0,
               ix |-> 0, iy |-> 0, x0 |-> 0, y0 |-> 0, q0 |-> 0, v0 |-> 0]
  /\ r_err = NoError
  /\ r_ret = <<0, 0>>
  /\ r_ops = 0

Construct(init_x_pos, init_y_pos, rot) ==
  /\ ~constructed
  /\ r_call.op = "none"
  /\ LET p == convert_field_CS_to_EFCS(rot, init_x_pos, init_y_pos)
     IN  /\ r_err' = p.err
         /\ constructed' = (p.err = NoError)
         /\ cord_system_rot' = IF p.err = NoError THEN rot ELSE cord_system_rot
         /\ x_pos_EFCS' = p.x
         /\ y_pos_EFCS' = p.y
  /\ pointing_angle' = 0
  /\ vel' = 0
  /\ r_call' = RobotCall("init", 0, 0, NoCollision, rot, init_x_pos, init_y_pos)
  /\ r_ret' = <<0, 0>>
  /\ UNCHANGED r_ops
  /\ UNCHANGED ballVars

\* ------------------------------------------------------------------------
\* Robot: get_position_components_wcs, get_velocity_components_wcs
\* ------------------------------------------------------------------------
position_wcs(rot, x, y) == convert_EFCS_to_field_CS(rot, x, y)

velocity_wcs(rot, v, q) ==
  convert_EFCS_to_field_CS(rot, Mul(v, Cos(q)), Mul(v, Sin(q)))

GetPosition ==
  /\ constructed
  /\ r_ops < MaxRobotOps
  /\ LET p == position_wcs(cord_system_rot, x_pos_EFCS, y_pos_EFCS)
     IN  /\ r_ret' = <<p.x, p.y>>
         /\ r_err' = p.err
  /\ r_call' = RobotCall("get_position", 0, 0, NoCollision, cord_system_rot, 0, 0)
  /\ r_ops' = r_ops + 1
  /\ UNCHANGED <<constructed, cord_system_rot, x_pos_EFCS, y_pos_EFCS,
                 pointing_angle, vel>>
  /\ UNCHANGED ballVars

GetVelocity ==
  /\ constructed
  /\ r_ops < MaxRobotOps
  /\ LET p == velocity_wcs(cord_system_rot, vel, pointing_angle)
     IN  /\ r_ret' = <<p.x, p.y>>
         /\ r_err' = p.err
  /\ r_call' = RobotCall("get_velocity", 0, 0, NoCollision, cord_system_rot, 0, 0)
  /\ r_ops' = r_ops + 1
  /\ UNCHANGED <<constructed, cord_system_rot, x_pos_EFCS, y_pos_EFCS,
                 pointing_angle, vel>>
  /\ UNCHANGED ballVars

\* ------------------------------------------------------------------------
\* Robot: step
\* ------------------------------------------------------------------------

\* mutant: only a heading above pi is wrapped
clip_angle_above(a) == IF a > PI THEN a - 2 * PI ELSE a

\* clip_angle = lambda a: a - 2*np.pi*np.sign(a) if abs(a) > np.pi else a
clip_angle(a) == IF Abs(a) > PI THEN a - 2 * PI * Sign(a) ELSE a

\* (self._wheel_radius * self._dt / self._axis_len) * (l - r), in angle units
TurnAngle(l, r) == Quot(l - r, 2)

\* the robot after step(l, r): [x, y, q, vel]
Kinematics(x, y, q, l, r) ==
  LET sum == (l + r) * WheelUnit
      k == Quot(Mul(wheel_radius, robot_dt), 2)
  IN  [vel |-> Mul(Quot(wheel_radius, 2), sum),
       x   |-> x + Mul(Mul(k, sum), Cos(q)),
       y   |-> y + Mul(Mul(k, sum), Sin(q)),
       q   |-> clip_angle(q + TurnAngle(l, r))]

RobotStep(l, r) ==
  /\ constructed
  /\ r_ops < MaxRobotOps
  /\ LET n == Kinematics(x_pos_EFCS, y_pos_EFCS, pointing_angle, l, r)
     IN  /\ x_pos_EFCS' = n.x
         /\ y_pos_EFCS' = n.y
         /\ pointing_angle' = n.q
         /\ vel' = n.vel
  /\ r_err' = NoError
  /\ r_ret' = <<0, 0>>
  /\ r_call' = RobotCall("step", l, r, NoCollision, cord_system_rot, 0, 0)
  /\ r_ops' = r_ops + 1
  /\ UNCHANGED <<constructed, cord_system_rot>>
  /\ UNCHANGED ballVars

\* ------------------------------------------------------------------------
\* Robot: collision_step, step_with_restrictions
\* ------------------------------------------------------------------------

\* get_diff_angle = lambda a, b: abs((a - b + np.pi) % (2 * np.pi) - np.pi)
get_diff_angle(a, b) == Abs(((a - b + PI) % (2 * PI)) - PI)

\* mutant: a travel heading on the edge of the sector is not blocked
RestrictedInside(q, blocker, restricted_angle, l, r) ==
  LET vel_simplified == Quot(l + r, 2)
  IN  IF vel_simplified = 0 THEN FALSE
      ELSE IF vel_simplified > 0
      THEN get_diff_angle(blocker, q) < restricted_angle
      ELSE get_diff_angle(blocker, clip_angle(q + PI)) < restricted_angle

\* whether step_with_restrictions cancels the translation
Restricted(q, blocker, restricted_angle, l, r) ==
  LET vel_simplified == Quot(l + r, 2)
  IN  IF vel_simplified = 0 THEN FALSE
      ELSE IF vel_simplified > 0
      THEN ~(get_diff_angle(blocker, q) > restricted_angle)
      ELSE ~(get_diff_angle(blocker, clip_angle(q + PI)) > restricted_angle)

\* the robot after step_with_restrictions: [x, y, q, vel]
step_with_restrictions(x, y, q, blocker, restricted_angle, l, r) ==
  LET vel_simplified == Quot(l + r, 2)
  IN  IF Restricted(q, blocker, restricted_angle, l, r)
      THEN Kinematics(x, y, q, l - vel_simplified, r - vel_simplified)
      ELSE Kinematics(x, y, q, l, r)

\* mutant: no collision at all is taken as a blocker behind the robot
NoCollisionDefault(x, y) ==
  [angle |-> 0, restricted |-> 0, x |-> x, y |-> y, err |-> NoError]

\* else: raise ValueError
NoCollisionGiven(x, y) ==
  [angle |-> 0, restricted |-> 0, x |-> x, y |-> y, err |-> ValueError]

\* mutant: the corner sector is chosen by the side of x alone
WallBlockerByX(x, y, wall) ==
  IF wall = "WALL_VERTICAL"
  THEN [angle |-> IF x > 0 THEN 0 ELSE -PI, restricted |-> PI \div 2,
        x |-> Round(x), y |-> y, err |-> NoError]
  ELSE IF wall = "WALL_HORIZONTAL"
  THEN [angle |-> IF y > 0 THEN PI \div 2 ELSE -(PI \div 2),
        restricted |-> PI \div 2,
        x |-> x, y |-> Round(y), err |-> NoError]
  ELSE [angle |-> IF x > 0 THEN PI \div 4 ELSE (3 * PI) \div 4,
        restricted |-> (3 * PI) \div 4,
        x |-> Round(x), y |-> Round(y), err |-> NoError]

\* the wall table of collision_step (elif wall_collision != NO): the blocker
\* angle, the restricted angle and the snapped position
WallBlocker(x, y, wall) ==
  IF wall = "WALL_VERTICAL"
  THEN [angle |-> IF x > 0 THEN 0 ELSE -PI, restricted |-> PI \div 2,
        x |-> Round(x), y |-> y, err |-> NoError]
  ELSE IF wall = "WALL_HORIZONTAL"
  THEN [angle |-> IF y > 0 THEN PI \div 2 ELSE -(PI \div 2),
        restricted |-> PI \div 2,
        x |-> x, y |-> Round(y), err |-> NoError]
  ELSE [angle |-> IF x > 0 /\ y > 0 THEN PI \div 4
                  ELSE IF x > 0 /\ y < 0 THEN -(PI \div 4)
                  ELSE IF x < 0 /\ y > 0 THEN (3 * PI) \div 4
                  ELSE -((3 * PI) \div 4),
        restricted |-> (3 * PI) \div 4,
        x |-> Round(x), y |-> Round(y), err |-> NoError]

\* mutant: the last entry of the collision list is the blocker
BlockerLastEntry(rot, x, y, col) ==
  IF col.players = "PLAYER"
  THEN IF Len(col.list) = 0
       THEN [angle |-> 0, restricted |-> 0, x |-> x, y |-> y, err |-> IndexError]
       ELSE LET other == col.list[Len(col.list)]
                self == position_wcs(rot, x, y)
                diff_x == self.x - other.x
                diff_y == self.y - other.y
            IN  [angle |-> Arctan2(diff_y, diff_x), restricted |-> PI \div 2,
                 x |-> x, y |-> y, err |-> self.err]
  ELSE IF col.wall # "NO"
  THEN WallBlocker(x, y, col.wall)
  ELSE NoCollisionGiven(x, y)

\* blocker_angle, restricted_angle and the snapped position chosen by
\* collision_step: [angle, restricted, x, y, err]
Blocker(rot, x, y, col) ==
  IF col.players = "PLAYER"
  THEN IF Len(col.list) = 0
       THEN [angle |-> 0, restricted |-> 0, x |-> x, y |-> y, err |-> IndexError]
       ELSE LET other == col.list[1]
                self == position_wcs(rot, x, y)
                diff_x == self.x - other.x
                diff_y == self.y - other.y
            IN  [angle |-> Arctan2(diff_y, diff_x), restricted |-> PI \div 2,
                 x |-> x, y |-> y, err |-> self.err]
  ELSE IF col.wall # "NO"
  THEN WallBlocker(x, y, col.wall)
  ELSE NoCollisionGiven(x, y)

\* the robot after collision_step: [x, y, q, vel, err]
collision_step(rot, x, y, q, v, col, l, r) ==
  LET b == Blocker(rot, x, y, col)
  IN  IF b.err # NoError
      THEN [x |-> x, y |-> y, q |-> q, vel |-> v, err |-> b.err]
      ELSE step_with_restrictions(b.x, b.y, q, b.angle, b.restricted, l, r)
             @@ [err |-> NoError]

CollisionStep(col, l, r) ==
  /\ constructed
  /\ r_ops < MaxRobotOps
  /\ LET n == collision_step(cord_system_rot, x_pos_EFCS, y_pos_EFCS,
                             pointing_angle, vel, col, l, r)
     IN  /\ x_pos_EFCS' = n.x
         /\ y_pos_EFCS' = n.y
         /\ pointing_angle' = n.q
         /\ vel' = n.vel
         /\ r_err' = n.err
  /\ r_ret' = <<0, 0>>
  /\ r_call' = RobotCall("collision_step", l, r, col, cord_system_rot, 0, 0)
  /\ r_ops' = r_ops + 1
  /\ UNCHANGED <<constructed, cord_system_rot>>
  /\ UNCHANGED ballVars

\* ------------------------------------------------------------------------
\* Specifications
\* ------------------------------------------------------------------------

\* a ball built with the defaults, left alone
BallIdle ==
  /\ dt = 100
  /\ friction = 10
  /\ mass = 100
  /\ vel_bounce_coefficient = 800
  /\ max_vel = 3000
  /\ x_pos = 0
  /\ y_pos = 0
  /\ x_vel = 0
  /\ y_vel = 0
  /\ b_call = [op |-> "init", body |-> NoBody, kick_vel |-> 0, orientation |-> "none",
               x0 |-> 0, y0 |-> 0, vx0 |-> 0, vy0 |-> 0]
  /\ b_err = NoError
  /\ b_ops = 0

InitBall == BallNew /\ RobotNotConstructed

SpecBall == InitBall /\ [][NextBall]_vars

InitRobot == BallIdle /\ RobotNotConstructed

NextRobot ==
  \/ \E p \in RobotInitPositions, rot \in Rotations : Construct(p[1], p[2], rot)
  \/ GetPosition
  \/ GetVelocity
  \/ \E w \in WheelPairs : RobotStep(w[1], w[2])
  \/ \E col \in CollisionInputs, w \in CollisionWheelPairs : CollisionStep(col, w[1], w[2])

SpecRobot == InitRobot /\ [][NextRobot]_vars

\* ------------------------------------------------------------------------
\* Ball: properties
\* ------------------------------------------------------------------------

\* squared speed of a velocity (raw product)
SpeedSq(vx, vy) == vx * vx + vy * vy

SameSign(a, b) == Sign(a) = Sign(b)

\* C2: no ball operation raises a division-by-zero error, also when the ball
\* velocity is (0,0) in the elastic collision or the ball is at the other
\* body's position in kick or elastic collision.
C2_NoDivisionByZero == b_err # ZeroDivisionError

\* C3 as stated: after step() of a moving ball the speed is not larger than
\* before and every velocity component keeps its sign, for all friction, mass
\* and dt.
C3_FrictionMonotoneAlways ==
  (b_call.op = "step" /\ <<b_call.vx0, b_call.vy0>> # <<0, 0>>) =>
     /\ SpeedSq(x_vel, y_vel) <= SpeedSq(b_call.vx0, b_call.vy0)
     /\ SameSign(x_vel, b_call.vx0)
     /\ SameSign(y_vel, b_call.vy0)

\* C3 amended: the same, provided the damping of one step friction*dt/mass
\* is in [0, 1).
C3_FrictionMonotone ==
  (/\ b_call.op = "step"
   /\ <<b_call.vx0, b_call.vy0>> # <<0, 0>>
   /\ 0 <= friction * dt
   /\ friction * dt < mass * Scale) =>
     /\ b_err = NoError
     /\ SpeedSq(x_vel, y_vel) <= SpeedSq(b_call.vx0, b_call.vy0)
     /\ SameSign(x_vel, b_call.vx0)
     /\ SameSign(y_vel, b_call.vy0)

\* a step with the default friction that slowed a ball moving on both axes
C3_Witness ==
  /\ b_call.op = "step"
  /\ friction * dt < mass * Scale
  /\ b_call.vx0 # 0
  /\ b_call.vy0 # 0
  /\ SpeedSq(x_vel, y_vel) < SpeedSq(b_call.vx0, b_call.vy0)

\* v is -coef * v0 at the resolution of the model
IsBounced(v, v0, coef) == Abs(v * Scale + coef * v0) < Scale

\* C4: wallCollision multiplies vx by -bounceCoefficient exactly when the
\* orientation is vertical or corner, vy exactly when it is horizontal or
\* corner, leaves the other component and the position unchanged.
C4_WallRebound ==
  b_call.op = "wall" =>
     /\ IF b_call.orientation \in {"vertical", "corner"}
        THEN IsBounced(x_vel, b_call.vx0, vel_bounce_coefficient)
        ELSE x_vel = b_call.vx0
     /\ IF b_call.orientation \in {"horizontal", "corner"}
        THEN IsBounced(y_vel, b_call.vy0, vel_bounce_coefficient)
        ELSE y_vel = b_call.vy0
     /\ x_pos = b_call.x0
     /\ y_pos = b_call.y0
     /\ b_err = NoError

\* a vertical wall hit by a ball moving on both axes
C4_Witness ==
  /\ b_call.op = "wall"
  /\ b_call.orientation = "vertical"
  /\ b_call.vx0 > 0
  /\ b_call.vy0 # 0
  /\ x_vel < 0

\* C5: kick sets the velocity to min(requestedSpeed, maxVelocity) along the
\* direction from the other body to the ball, whatever the velocity before:
\* the velocity is fixed by the two positions and the speeds alone, and the
\* speed never exceeds maxVelocity.  (The direction exists when the two
\* positions differ.  Speeds are compared at the resolution of the model:
\* three units for the truncated quotients and roots, and one part in the
\* distance of the two bodies for the truncated distance.)
C5_KickVelocity ==
  (b_call.op = "kick" /\ <<b_call.x0, b_call.y0>> # <<b_call.body.x, b_call.body.y>>) =>
     LET dx == b_call.x0 - b_call.body.x
         dy == b_call.y0 - b_call.body.y
         dmax == IF Abs(dx) > Abs(dy) THEN Abs(dx) ELSE Abs(dy)
         kv == IF b_call.kick_vel <= max_vel THEN b_call.kick_vel ELSE max_vel
         speed == Sqrt(SpeedSq(x_vel, y_vel))
     IN  /\ b_err = NoError
         /\ (speed - max_vel) * dmax <= max_vel + 3 * dmax
         /\ Abs(speed - kv) * dmax <= kv + 3 * dmax
         /\ Abs(x_vel * dy - y_vel * dx) <= Abs(dx) + Abs(dy)
         /\ x_vel * dx + y_vel * dy > 0
         /\ x_pos = b_call.x0
         /\ y_pos = b_call.y0

\* a kick faster than maxVelocity of a ball that was moving another way
C5_Witness ==
  /\ b_call.op = "kick"
  /\ b_call.kick_vel > max_vel
  /\ b_err = NoError
  /\ b_call.vx0 * x_vel + b_call.vy0 * y_vel < 0
  /\ SpeedSq(x_vel, y_vel) > b_call.kick_vel - max_vel
  /\ SpeedSq(b_call.vx0, b_call.vy0) > SpeedSq(x_vel, y_vel)

\* C6: receive sets the ball velocity to the other body's velocity, and a
\* second receive from a body with the same velocity changes nothing.
C6_ReceiveIdempotent ==
  b_call.op = "receive" =>
     /\ x_vel = b_call.body.vx
     /\ y_vel = b_call.body.vy
     /\ (<<b_call.vx0, b_call.vy0>> = <<b_call.body.vx, b_call.body.vy>>
           => <<x_vel, y_vel>> = <<b_call.vx0, b_call.vy0>>)
     /\ x_pos = b_call.x0
     /\ y_pos = b_call.y0
     /\ b_err = NoError

\* a receive repeated with the velocity of the receive before it
C6_Witness ==
  /\ b_call.op = "receive"
  /\ <<b_call.vx0, b_call.vy0>> = <<b_call.body.vx, b_call.body.vy>>
  /\ b_call.body.vx # 0
  /\ b_ops >= 2

\* the line through (x, y) along (vx, vy) passes the centre of the body at
\* more than its radius (by one part in twenty, the resolution at which the
\* model tells a tangent from a miss)
LineMisses(x, y, vx, vy, body) ==
  /\ <<vx, vy>> # <<0, 0>>
  /\ 20 * Quot(Abs(vx * (body.y - y) - vy * (body.x - x)), Hypot(vx, vy))
        > 21 * body.radius

ElasticIsNoOp ==
  /\ x_vel = b_call.vx0
  /\ y_vel = b_call.vy0
  /\ x_pos = b_call.x0
  /\ y_pos = b_call.y0
  /\ b_err = NoError

\* C7: elasticCollision is a no-op whenever the trajectory line of the ball
\* does not intersect the circle of the other body.
C7_MissIsNoOp ==
  (b_call.op = "elastic"
     /\ LineMisses(b_call.x0, b_call.y0, b_call.vx0, b_call.vy0, b_call.body))
  => ElasticIsNoOp

\* C7 where the code holds it: the same for a ball not moving toward
\* negative x (the branch test is x_vel >= move_vel_threshold, without abs)
C7_MissIsNoOpForward ==
  (b_call.op = "elastic" /\ b_call.vx0 >= 0
     /\ LineMisses(b_call.x0, b_call.y0, b_call.vx0, b_call.vy0, b_call.body))
  => ElasticIsNoOp

\* C11: elasticCollision uses the slope parameterization (quadratic in x,
\* k = vy/vx) whenever |vx| >= 0.001, for positive and negative vx alike, and
\* the fixed-x parameterization only when |vx| < 0.001.
C11_SlopeBranchBothSigns ==
  b_call.op = "elastic" =>
     (b_call.slope <=> Abs(b_call.vx0) >= move_vel_threshold)

\* what the code does: the slope parameterization is used exactly when
\* vx >= 0.001, so a ball moving toward negative x is solved with x fixed
C11_SlopeBranchSigned ==
  b_call.op = "elastic" =>
     (b_call.slope <=> b_call.vx0 >= move_vel_threshold)

\* the elastic collision of the last call reflected the ball
LastElasticHit ==
  /\ b_call.op = "elastic"
  /\ b_err = NoError
  /\ ~NoIntersection(Discriminant(Quadratic(b_call.x0, b_call.y0, b_call.vx0,
                                             b_call.vy0, b_call.body)))

\* C16: the result of elasticCollision does not depend on bounceCoefficient:
\* the velocity after the call is the reflection fixed by the position and
\* velocity of the ball and the other body alone, and relative to the other
\* body the ball keeps its whole speed whatever the coefficient is (speeds
\* compared at the resolution of the model), whereas wallCollision scales
\* the rebounding component by the coefficient of the ball and by no other.
C16_ElasticIgnoresBounce ==
  /\ LastElasticHit =>
       LET q == Quadratic(b_call.x0, b_call.y0, b_call.vx0, b_call.vy0, b_call.body)
           p == CollisionPoint(b_call.x0, b_call.y0, b_call.vx0, b_call.vy0, q,
                               Discriminant(q))
           r == Reflect(b_call.vx0, b_call.vy0, p.x - b_call.body.x,
                        p.y - b_call.body.y, b_call.body)
       IN  /\ <<x_vel, y_vel>> = <<r.vx, r.vy>>
           /\ Abs(Hypot(x_vel - b_call.body.vx, y_vel - b_call.body.vy)
                    - Hypot(b_call.vx0, b_call.vy0)) <= 3
  /\ (b_call.op = "wall" /\ b_call.orientation = "vertical"
        /\ Abs(b_call.vx0) >= Scale) =>
       \A coef \in BounceCoefficients :
          IsBounced(x_vel, b_call.vx0, coef) <=> coef = vel_bounce_coefficient

\* a ball with the smaller bounce coefficient reflected by a moving body at
\* full speed
C16_Witness ==
  /\ LastElasticHit
  /\ vel_bounce_coefficient = 300
  /\ <<b_call.body.vx, b_call.body.vy>> # <<0, 0>>
  /\ Hypot(b_call.vx0, b_call.vy0) >= Scale
  /\ <<x_vel, y_vel>> # <<b_call.vx0, b_call.vy0>>
  /\ Hypot(x_vel - b_call.body.vx, y_vel - b_call.body.vy) + 3
        >= Hypot(b_call.vx0, b_call.vy0)

\* C10: step() of a ball with zero velocity leaves the position unchanged
\* and the velocity zero; by induction, so do N such steps in a row.
C10_IdleBall ==
  (b_call.op = "step" /\ b_call.vx0 = 0 /\ b_call.vy0 = 0) =>
     /\ x_pos = b_call.x0
     /\ y_pos = b_call.y0
     /\ x_vel = 0
     /\ y_vel = 0
     /\ b_err = NoError

\* a second step in a row of a ball at rest
C10_Witness ==
  /\ b_call.op = "step"
  /\ b_call.vx0 = 0
  /\ b_call.vy0 = 0
  /\ b_ops = MaxBallOps
  /\ x_pos # 0

\* ------------------------------------------------------------------------
\* Robot: properties
\* ------------------------------------------------------------------------

RobotMoved == r_call.op \in {"step", "collision_step"}

\* C1 as stated: after every step the heading is in (-pi, pi], never -pi and
\* never outside, whatever the angular change of one tick.
C1_HeadingHalfOpen ==
  constructed => (-PI < pointing_angle /\ pointing_angle <= PI)

\* the heading leaves [-pi, pi] altogether (one tick turning by more than
\* 2 pi past the interval)
C1_HeadingWithinTurn == constructed => Abs(pointing_angle) <= PI

\* C1 amended: a step whose angular change is smaller than 2 pi takes a
\* heading in the closed interval [-pi, pi] to a heading in [-pi, pi]; the
\* heading starts at 0, so it stays in [-pi, pi] as long as every tick turns by
\* less than 2 pi.
C1_HeadingWrapped ==
  (/\ RobotMoved
   /\ Abs(r_call.q0) <= PI
   /\ Abs(r_call.l - r_call.r) < 4 * PI) =>
     Abs(pointing_angle) <= PI

\* a step that turned past -pi by less than 2 pi and was wrapped
C1_Witness ==
  /\ r_call.op = "step"
  /\ Abs(r_call.q0) <= PI
  /\ Abs(r_call.l - r_call.r) < 4 * PI
  /\ 2 * r_call.q0 + (r_call.l - r_call.r) < (-2) * PI
  /\ pointing_angle > 0
  /\ pointing_angle <= PI

\* C8: the converter is the identity for rotation 0, negates both components
\* for rotation pi and fails for every other rotation, so that no robot is
\* constructed with another rotation.
C8_FrameConverter ==
  /\ r_call.op = "init" =>
       IF r_call.rot = 0
       THEN constructed /\ r_err = NoError
            /\ x_pos_EFCS = r_call.ix /\ y_pos_EFCS = r_call.iy
       ELSE IF r_call.rot = PI
       THEN constructed /\ r_err = NoError
            /\ x_pos_EFCS = -r_call.ix /\ y_pos_EFCS = -r_call.iy
       ELSE ~constructed /\ r_err = ValueError
  /\ constructed => cord_system_rot \in {0, PI}
  /\ r_call.op = "get_position" =>
       /\ r_err = NoError
       /\ r_ret = IF cord_system_rot = 0
                  THEN <<x_pos_EFCS, y_pos_EFCS>>
                  ELSE <<-x_pos_EFCS, -y_pos_EFCS>>
  /\ \A rot \in Rotations \ {0, PI} :
       /\ convert_EFCS_to_field_CS(rot, x_pos_EFCS, y_pos_EFCS).err = ValueError
       /\ convert_field_CS_to_EFCS(rot, r_ret[1], r_ret[2]).err = ValueError

\* a construction with rotation pi/2, refused
C8_Witness ==
  /\ r_call.op = "init"
  /\ r_call.rot = PI \div 2
  /\ r_call.ix # 0
  /\ ~constructed
  /\ r_err = ValueError

\* C9: collision_step with no wall and no player collision raises and moves
\* nothing: position, heading and velocity are as before the call.
C9_NoCollisionRaises ==
  (r_call.op = "collision_step" /\ r_call.col.wall = "NO"
     /\ r_call.col.players = "NO") =>
     /\ r_err = ValueError
     /\ x_pos_EFCS = r_call.x0
     /\ y_pos_EFCS = r_call.y0
     /\ pointing_angle = r_call.q0
     /\ vel = r_call.v0

\* such a call on a moving robot, asked to drive and turn
C9_Witness ==
  /\ r_call.op = "collision_step"
  /\ r_call.col.wall = "NO"
  /\ r_call.col.players = "NO"
  /\ r_call.l # r_call.r
  /\ r_call.l + r_call.r # 0
  /\ r_call.v0 # 0
  /\ r_err = ValueError

\* shortest-arc distance of two directions
ShortestArc(a, b) ==
  LET d == (a - b) % (2 * PI)
  IN  IF d > PI THEN 2 * PI - d ELSE d

\* the pose and sector handed to the motion step by the last collision_step
\* (a wall collision snaps the colliding coordinates first)
LastBlocker == Blocker(r_call.rot, r_call.x0, r_call.y0, r_call.col)

\* the requested averageSpeed of the last call, doubled
LastSpeedSum == r_call.l + r_call.r

\* the intended travel heading of the last call
LastTravelHeading ==
  IF LastSpeedSum > 0 THEN r_call.q0 ELSE r_call.q0 + PI

\* the travel heading of the last call is within the restricted sector
LastTravelBlocked ==
  /\ LastSpeedSum # 0
  /\ ShortestArc(LastTravelHeading, LastBlocker.angle) <= LastBlocker.restricted

\* the pose after the plain step(left, right) from the pose handed to the
\* motion step
LastPlainStep ==
  Kinematics(LastBlocker.x, LastBlocker.y, r_call.q0, r_call.l, r_call.r)

\* C12: in collisionStep, when averageSpeed is nonzero and the travel heading
\* (heading, or heading + pi when driving backward) is within the restricted
\* half-angle of blockerAngle by shortest arc, boundary included, the motion
\* step does not translate the position, the velocity becomes 0 and the
\* heading changes by what the unrestricted step would produce; in every
\* other case the motion step is the plain step(left, right).
C12_RestrictedStep ==
  (r_call.op = "collision_step" /\ r_err = NoError) =>
     IF LastTravelBlocked
     THEN /\ x_pos_EFCS = LastBlocker.x
          /\ y_pos_EFCS = LastBlocker.y
          /\ vel = 0
          /\ pointing_angle = LastPlainStep.q
     ELSE /\ x_pos_EFCS = LastPlainStep.x
          /\ y_pos_EFCS = LastPlainStep.y
          /\ vel = LastPlainStep.vel
          /\ pointing_angle = LastPlainStep.q

\* a robot driving backward and turning, its travel heading on the very edge
\* of the sector: not translated, stopped, turned
C12_Witness ==
  /\ r_call.op = "collision_step"
  /\ r_err = NoError
  /\ LastSpeedSum < 0
  /\ r_call.l # r_call.r
  /\ r_call.v0 # 0
  /\ ShortestArc(LastTravelHeading, LastBlocker.angle) = LastBlocker.restricted
  /\ vel = 0
  /\ pointing_angle # r_call.q0
  /\ <<x_pos_EFCS, y_pos_EFCS>> = <<r_call.x0, r_call.y0>>

\* a collision step outside the sector that moved the robot as the plain step
C12_WitnessFree ==
  /\ r_call.op = "collision_step"
  /\ r_err = NoError
  /\ LastSpeedSum # 0
  /\ ~LastTravelBlocked
  /\ vel # 0
  /\ <<x_pos_EFCS, y_pos_EFCS>> # <<r_call.x0, r_call.y0>>

\* the last call was a collision_step for a wall alone
LastWallOnly ==
  /\ r_call.op = "collision_step"
  /\ r_call.col.players # "PLAYER"
  /\ r_call.col.wall \in {"WALL_VERTICAL", "WALL_HORIZONTAL", "WALL_CORNER"}

IsSnapped(v, v0) == v % Scale = 0 /\ 2 * Abs(v - v0) <= Scale

\* v, the coordinate after the call, is not further outward than its snapped
\* value: for v0 > 0 before the call v is at most the whole number nearest to
\* v0, for v0 < 0 at least; and v is that whole number itself when the motion
\* step did not translate the robot
NotOutward(v, v0) ==
  /\ v0 > 0 => \E s \in {v0 - (v0 % Scale), v0 - (v0 % Scale) + Scale} :
                  IsSnapped(s, v0) /\ v <= s
  /\ v0 < 0 => \E s \in {v0 - (v0 % Scale), v0 - (v0 % Scale) + Scale} :
                  IsSnapped(s, v0) /\ v >= s
  /\ vel = 0 => IsSnapped(v, v0)

\* the colliding coordinates of the last wall collision_step are not further
\* outward than their snapped values
LastWallHolds ==
  /\ r_err = NoError
  /\ r_call.col.wall \in {"WALL_VERTICAL", "WALL_CORNER"} =>
        NotOutward(x_pos_EFCS, r_call.x0)
  /\ r_call.col.wall \in {"WALL_HORIZONTAL", "WALL_CORNER"} =>
        NotOutward(y_pos_EFCS, r_call.y0)

\* C14 as stated: in a wall collisionStep the colliding coordinates are
\* snapped to the nearest integer before the motion step, and the motion step
\* never moves a snapped coordinate further outward than the snapped value,
\* for all headings and wheel speeds and wherever the robot is.
C14_NeverOutwardAnywhere == LastWallOnly => LastWallHolds

\* C14 amended: the same, provided that in a corner collision the robot is
\* on neither axis (both coordinates are nonzero before the call).
C14_NeverOutward ==
  (/\ LastWallOnly
   /\ r_call.col.wall = "WALL_CORNER" => (r_call.x0 # 0 /\ r_call.y0 # 0))
  => LastWallHolds

\* a corner collision of a robot off the grid, driving backward out of the
\* corner: both coordinates snapped, then moved inward
C14_Witness ==
  /\ LastWallOnly
  /\ r_call.col.wall = "WALL_CORNER"
  /\ r_call.x0 < 0
  /\ r_call.y0 > 0
  /\ ~IsSnapped(r_call.x0, r_call.x0)
  /\ ~IsSnapped(r_call.y0, r_call.y0)
  /\ vel # 0
  /\ IsSnapped(LastBlocker.x, r_call.x0)
  /\ IsSnapped(LastBlocker.y, r_call.y0)
  /\ x_pos_EFCS > LastBlocker.x
  /\ y_pos_EFCS < LastBlocker.y

\* a blocked wall collision: the colliding coordinate snapped and left there
C14_WitnessSnapped ==
  /\ LastWallOnly
  /\ r_call.col.wall = "WALL_VERTICAL"
  /\ r_call.x0 > 0
  /\ ~IsSnapped(r_call.x0, r_call.x0)
  /\ LastSpeedSum # 0
  /\ vel = 0
  /\ IsSnapped(x_pos_EFCS, r_call.x0)
  /\ y_pos_EFCS = r_call.y0

\* the last call was a collision_step with a player collision and a body in
\* the collision list
LastPlayer ==
  /\ r_call.op = "collision_step"
  /\ r_call.col.players = "PLAYER"
  /\ Len(r_call.col.list) >= 1

\* the robot after the last call
RobotPose ==
  [x |-> x_pos_EFCS, y |-> y_pos_EFCS, q |-> pointing_angle, vel |-> vel,
   err |-> r_err]

\* the pose the last call gives with another wall collision and other
\* further entries of the collision list
LastCallWith(wall, rest) ==
  collision_step(r_call.rot, r_call.x0, r_call.y0, r_call.q0, r_call.v0,
                 Collision(wall, "PLAYER", <<r_call.col.list[1]>> \o rest),
                 r_call.l, r_call.r)

\* C15: with a player collision, collisionStep takes blockerAngle from the
\* first entry of the collision list alone (the direction from that body to
\* this robot, half-angle pi/2) and the player goes before a simultaneous
\* wall collision: the wall table is not consulted, no coordinate is snapped,
\* and the further entries of the list do not influence the resulting pose.
C15_FirstPlayerOnly ==
  LastPlayer =>
     LET first == r_call.col.list[1]
         self == position_wcs(r_call.rot, r_call.x0, r_call.y0)
         dx == self.x - first.x
         dy == self.y - first.y
         b == LastBlocker
         along == Mul(Cos(b.angle), dx) + Mul(Sin(b.angle), dy)
         across == Abs(Mul(Cos(b.angle), dy) - Mul(Sin(b.angle), dx))
     IN  /\ r_err = NoError
         /\ b.restricted * 2 = PI
         \* the blocker angle is the direction of (dx, dy), to the nearest
         \* eighth of a turn (415/1000 is above tan(pi/8))
         /\ <<dx, dy>> # <<0, 0>> => along > 0
         /\ across * Scale <= 415 * along + 2 * Scale
         /\ <<b.x, b.y>> = <<r_call.x0, r_call.y0>>
         /\ (vel = 0 /\ LastSpeedSum # 0) =>
               <<x_pos_EFCS, y_pos_EFCS>> = <<r_call.x0, r_call.y0>>
         /\ \A wall \in CollisionTypes \ {"PLAYER"} :
              \A rest \in {<<>>, <<OtherA>>, <<OtherB>>, <<OtherB, OtherA>>} :
                 RobotPose = LastCallWith(wall, rest)

\* a robot off the grid, at a vertical wall and in contact with two bodies,
\* the first of which blocks it and the second of which would not: stopped
\* where it was, not snapped
C15_Witness ==
  /\ LastPlayer
  /\ r_call.col.wall = "WALL_VERTICAL"
  /\ Len(r_call.col.list) = 2
  /\ LastSpeedSum # 0
  /\ vel = 0
  /\ r_call.v0 # 0
  /\ ~IsSnapped(x_pos_EFCS, x_pos_EFCS)
  /\ x_pos_EFCS = r_call.x0
  /\ LET other == r_call.col.list[2]
          self == position_wcs(r_call.rot, r_call.x0, r_call.y0)
      IN  ShortestArc(LastTravelHeading,
                      Arctan2(self.y - other.y, self.x - other.x)) > PI \div 2

\* the other frame rotation of the two a robot can have
OtherRotation(rot) == IF rot = 0 THEN PI ELSE 0

\* the pose after the last call of a second robot with the other frame
\* rotation, at the same world position (its own coordinates are the
\* negated ones), with own heading q, given the same collision and speeds
LastCallOtherFrame(q) ==
  collision_step(OtherRotation(r_call.rot), -r_call.x0, -r_call.y0, q,
                 r_call.v0, r_call.col, r_call.l, r_call.r)

\* C17: for a player collision, whether collisionStep cancels the translation
\* depends on the world-frame configuration alone: a second robot with the
\* other frame rotation, the same world position and the same world-frame
\* heading (its own heading is the first robot's turned by pi), colliding
\* with the same body at the same wheel speeds, has its translation
\* cancelled exactly when the first has.
C17_FrameIndependent ==
  (LastPlayer /\ r_err = NoError /\ LastSpeedSum # 0) =>
     ((vel = 0) <=> (LastCallOtherFrame(clip_angle(r_call.q0 + PI)).vel = 0))

\* what the code does: the blocker angle is taken in world coordinates and
\* compared with the robot's own heading, so the two robots agree when
\* their own headings are the same, which are opposite world headings
C17_OwnHeadingDecides ==
  (LastPlayer /\ r_err = NoError /\ LastSpeedSum # 0) =>
     ((vel = 0) <=> (LastCallOtherFrame(r_call.q0).vel = 0))

====
